---- MODULE Spec2Model ----
(***************************************************************************)
(* Verify-first payment gateway of x402-usdt0.                             *)
(*                                                                         *)
(* The model follows verifyFirstMiddleware in its four deployed forms:     *)
(*   "plain"     x402/middleware.js, no event emitter wired                *)
(*   "hooks"     x402/middleware.js behind a facilitator whose hooks       *)
(*               broadcast the lifecycle events (src/client-mcp.js)        *)
(*   "guarded"   x402/facilitator.js:119, emits through onEvent and        *)
(*               suppresses verify events of a request without a header    *)
(*   "unguarded" unnamed/part_005, emits through onEvent unconditionally   *)
(* httpServer (x402HTTPResourceServer), the Verifier and the Settler are   *)
(* collaborators: their answers are inputs of the actions.                 *)
(***************************************************************************)
EXTENDS Integers, Sequences, FiniteSets, TLC

\* ------------------------------------------------------------------ bounds
NumReq == 2
MaxFinish == 2
NumObs == 2
MaxEvents == 2
MaxExtract == 2
MaxCalls == 2
MaxSetup == 2
\* requests handled by the facilitator endpoints / by POST /demo/events
MaxRpc == 2
MaxPosts == 2

Requests == 1..NumReq
Observers == 1..NumObs

\* ------------------------------------------------------------- input sets
Absent == "absent"
Variants == {"plain", "hooks", "guarded", "unguarded"}
PaidPath == "GET /weather"
FreePath == "GET /health"
Paths == {PaidPath, FreePath}
SigValues == {Absent, "", "sigA"}
XPayValues == {Absent, "xpayB"}
Verdicts == {"valid", "invalid", "throws"}
SettleOutcomes == {"success", "failure", "throws"}
HandlerStatuses == {200, 500}

\* routes = { "GET /weather": { accepts: [{ scheme: "exact", ... }] } }
RouteTable ==
  [p \in {PaidPath} |->
     [scheme |-> "exact", network |-> "eip155:9745",
      amount |-> "100", payTo |-> "PAY_TO_ADDRESS"]]

VARIABLES
  variant,        \* which verifyFirstMiddleware is mounted
  initState,      \* promise of httpServer.initialize(): pending/resolved/rejected
  holderSet,      \* initPromiseHolder.promise is non-null
  pc,             \* per request: position of the request in its life cycle
  ctx,            \* per request: the context object built by the middleware
  verdict,        \* per request: what the Verifier reported for it
  verifyCalls,    \* per request: number of Verifier invocations
  nextCalled,     \* per request: next() was called (resource handler invoked)
  res,            \* per request: status, headers and body written to res
  listeners,      \* per request: closures registered with res.on("finish")
  finishEmits,    \* per request: number of 'finish' emissions of res
  settleLog,      \* per request: arguments of each processSettlement call
  inflight,       \* per request: processSettlement promises not yet settled
  settleResults,  \* per request: how each processSettlement promise settled
  events,         \* per request: lifecycle events emitted, in emission order
  sseClients,     \* the Set sseClients, in insertion order
  obsState,       \* per observer: its /events connection (idle/open/broken/closed)
  received,       \* per observer: the messages written to its response
  subscribedAt,   \* per observer: how many events were published when it was added
  published,      \* the events passed to broadcastEvent, in call order
  busEmitted,     \* per request: number of events its emitters have produced
  inFlight,       \* POST /demo/events requests sent by pushEvent, not yet arrived
  writeThrows,    \* whether client.write throws on a broken connection
  publisherFailed, \* a broadcastEvent call threw into its caller
  extracted,      \* header pairs seen by the middleware with the credential taken
  logAtStart,     \* content of mcp-calls.json before the first tool call
  callLog,        \* content of mcp-calls.json
  toolCalls,      \* get-weather invocations so far: what the paid request did
  existingConfig, \* claude_desktop_config.json before setup ran
  claudeConfig,   \* claude_desktop_config.json
  setupRuns,      \* the x402-weather entries merged by successive setup runs
  flowServer,     \* /demo/start-flow: progress of the paid request on the server
  flowClient,     \* /demo/start-flow: progress of the wrappedFetch call
  flowRun,        \* /demo/start-flow: what the first fetch returned, answers sent
  facilitatorLog, \* /verify and /settle requests handled, with what each did
  posts           \* POST /demo/events requests handled, with what each did

gatewayVars == <<variant, initState, holderSet, pc, ctx, verdict, verifyCalls,
                 nextCalled, res, listeners, finishEmits, settleLog, inflight,
                 settleResults, events>>

busVars == <<sseClients, obsState, received, subscribedAt, published,
             busEmitted, inFlight, writeThrows, publisherFailed>>

sideVars == <<extracted, logAtStart, callLog, toolCalls, existingConfig,
              claudeConfig, setupRuns, flowServer, flowClient, flowRun,
                 facilitatorLog, posts>>

vars == <<gatewayVars, busVars, sideVars>>

NoCtx == [path |-> "none", paymentHeader |-> Absent]
FreshRes == [status |-> 200, headers |-> {}, body |-> "unsent"]

\* ------------------------------------------------------- pure operators

\* a || b of JavaScript on header values: undefined and "" are falsy
Falsy(v) == v = Absent \/ v = ""

\* a plausible slip: the two headers are consulted in the other order
GetPaymentHeaderXFirst(sig, xpay) == IF ~Falsy(xpay) THEN xpay ELSE sig

\* adapter.getHeader("payment-signature") || adapter.getHeader("x-payment")
GetPaymentHeader(sig, xpay) == IF ~Falsy(sig) THEN sig ELSE xpay

\* const hasPayment = !!context.paymentHeader
HasPayment(context) == ~Falsy(context.paymentHeader)

\* httpServer.requiresPayment(context): the route has a payment requirement
RequiresPayment(context) == context.path \in DOMAIN RouteTable

\* the payment-required answer of httpServer for a route
PaymentRequiredResponse(requirement, reason, isHtml) ==
  [status |-> 402,
   headers |-> {<<"PAYMENT-REQUIRED", <<requirement, reason>> >>}
               \cup (IF isHtml THEN {<<"Content-Type", "text/html">>}
                              ELSE {<<"Content-Type", "application/json">>}),
   body |-> IF isHtml THEN "<html>paywall</html>" ELSE "undefined",
   isHtml |-> isHtml]

\* await httpServer.processHTTPRequest(context), given the Verifier's verdict
ProcessHTTPRequest(context, v, isHtml) ==
  IF ~RequiresPayment(context)
  THEN [type |-> "no-payment-required"]
  ELSE IF ~HasPayment(context)
  THEN [type |-> "payment-error",
        response |-> PaymentRequiredResponse(RouteTable[context.path],
                                             "Payment required", isHtml)]
  ELSE IF v = "valid"
  THEN [type |-> "payment-verified",
        paymentPayload |-> <<"payload", context.paymentHeader>>,
        paymentRequirements |-> RouteTable[context.path]]
  ELSE IF v = "invalid"
  THEN [type |-> "payment-error",
        response |-> PaymentRequiredResponse(RouteTable[context.path],
                                             "invalid_payment", isHtml)]
  ELSE [type |-> "rejected"]

\* emit(...) / onEvent?.(...) of the middlewares that take an onEvent
Emit(evs, type) ==
  IF variant \in {"guarded", "unguarded"} THEN Append(evs, type) ELSE evs

\* broadcastEvent(...) inside a facilitator hook
HookEmit(evs, type) ==
  IF variant = "hooks" THEN Append(evs, type) ELSE evs

\* a plausible slip: verify_started is never emitted
EmitVerifyStartedSkipped(evs, context) == evs

\* the verify_started emission before processHTTPRequest is called
EmitVerifyStarted(evs, context) ==
  IF variant = "guarded" /\ ~HasPayment(context) THEN evs
  ELSE Emit(evs, "verify_started")

\* the verify_failed emission of the payment-error case
EmitVerifyFailed(evs, context) ==
  IF variant = "guarded" /\ ~HasPayment(context) THEN evs
  ELSE Emit(evs, "verify_failed")

\* onBeforeVerify: runs when the facilitator is asked to verify a payload
HookBeforeVerify(evs, context) ==
  IF HasPayment(context) THEN HookEmit(evs, "verify_started") ELSE evs

\* onAfterVerify runs whenever verify returns, onVerifyFailure when it throws
HookAfterVerify(evs, context, v) ==
  IF ~HasPayment(context) THEN evs
  ELSE IF v = "throws" THEN HookEmit(evs, "verify_failed")
  ELSE HookEmit(evs, "verify_completed")

\* a plausible slip: the status is copied but the headers are not
WriteResponseNoHeaders(response) ==
  [status |-> response.status,
   headers |-> {},
   body |-> IF response.isHtml THEN response.body
            ELSE IF response.body = "undefined" THEN "{}" ELSE response.body]

\* res.status(..); setHeader for every entry; res.send(body) or res.json(body || {})
WriteResponse(response) ==
  [status |-> response.status,
   headers |-> {h \in response.headers : TRUE},
   body |-> IF response.isHtml THEN response.body
            ELSE IF response.body = "undefined" THEN "{}" ELSE response.body]

\* mcp-calls.json holding a JSON array of entries
ValidLog(entries) == [kind |-> "array", entries |-> entries]

\* claude_desktop_config.json does not exist: readClaudeConfig returns {}
NoConfig == [top |-> {}, mcpServers |-> [kind |-> "absent", entries |-> {}]]

\* ---------------------------------------------------------------- Init
GatewayInit ==
  /\ variant \in Variants
  /\ initState = "pending"
  /\ holderSet = TRUE
  /\ pc = [r \in Requests |-> "idle"]
  /\ ctx = [r \in Requests |-> NoCtx]
  /\ verdict = [r \in Requests |-> "none"]
  /\ verifyCalls = [r \in Requests |-> 0]
  /\ nextCalled = [r \in Requests |-> FALSE]
  /\ res = [r \in Requests |-> FreshRes]
  /\ listeners = [r \in Requests |-> <<>>]
  /\ finishEmits = [r \in Requests |-> 0]
  /\ settleLog = [r \in Requests |-> <<>>]
  /\ inflight = [r \in Requests |-> 0]
  /\ settleResults = [r \in Requests |-> <<>>]
  /\ events = [r \in Requests |-> <<>>]

\* no observer connected, nothing published
BusInit ==
  /\ sseClients = <<>>
  /\ obsState = [o \in Observers |-> "idle"]
  /\ received = [o \in Observers |-> <<>>]
  /\ subscribedAt = [o \in Observers |-> 0]
  /\ published = <<>>
  /\ busEmitted = [r \in Requests |-> 0]
  /\ inFlight = {}
  /\ publisherFailed = FALSE

\* no request seen, an empty call log, no config file, no demo flow started
SideInit ==
  /\ extracted = <<>>
  /\ logAtStart = ValidLog(<<>>)
  /\ callLog = ValidLog(<<>>)
  /\ toolCalls = <<>>
  /\ existingConfig = NoConfig
  /\ claudeConfig = NoConfig
  /\ setupRuns = <<>>
  /\ flowServer = "idle"
  /\ flowClient = "idle"
  /\ flowRun = [initial |-> "none", answers |-> <<>>]
  /\ facilitatorLog = <<>>
  /\ posts = <<>>

Init ==
  /\ GatewayInit
  /\ BusInit
  /\ writeThrows = FALSE
  /\ SideInit

\* ------------------------------------------------------------- actions

\* the promise of httpServer.initialize() resolves
InitializeResolves ==
  /\ initState = "pending"
  /\ initState' = "resolved"
  /\ UNCHANGED <<sideVars, busVars, variant, holderSet, pc, ctx, verdict, verifyCalls, nextCalled,
                 res, listeners, finishEmits, settleLog, inflight, settleResults, events>>

\* the promise of httpServer.initialize() rejects
InitializeRejects ==
  /\ initState = "pending"
  /\ initState' = "rejected"
  /\ UNCHANGED <<sideVars, busVars, variant, holderSet, pc, ctx, verdict, verifyCalls, nextCalled,
                 res, listeners, finishEmits, settleLog, inflight, settleResults, events>>

\* emit verify_started (where the variant does) and call processHTTPRequest
BeginVerification(r, context) ==
  /\ pc' = [pc EXCEPT ![r] = "verifying"]
  /\ verifyCalls' = [verifyCalls EXCEPT
                       ![r] = IF HasPayment(context) THEN @ + 1 ELSE @]
  /\ events' = [events EXCEPT
                  ![r] = HookBeforeVerify(EmitVerifyStarted(@, context), context)]

\* a plausible slip: next() without return, the request goes on to verification
EnterMiddlewareNoReturn(r, context) ==
  /\ nextCalled' = [nextCalled EXCEPT ![r] = ~RequiresPayment(context)]
  /\ IF holderSet
     THEN /\ pc' = [pc EXCEPT ![r] = "awaitInit"]
          /\ UNCHANGED <<verifyCalls, events>>
     ELSE BeginVerification(r, context)

\* a plausible slip: the initialization promise is not awaited
EnterMiddlewareNoAwait(r, context) ==
  IF ~RequiresPayment(context)
  THEN /\ nextCalled' = [nextCalled EXCEPT ![r] = TRUE]
       /\ pc' = [pc EXCEPT ![r] = "handler"]
       /\ UNCHANGED <<verifyCalls, events>>
  ELSE /\ BeginVerification(r, context)
       /\ UNCHANGED nextCalled

\* if (!requiresPayment) return next(); if (holder.promise) await it; verify
EnterMiddleware(r, context) ==
  IF ~RequiresPayment(context)
  THEN /\ nextCalled' = [nextCalled EXCEPT ![r] = TRUE]
       /\ pc' = [pc EXCEPT ![r] = "handler"]
       /\ UNCHANGED <<verifyCalls, events>>
  ELSE IF holderSet
  THEN /\ pc' = [pc EXCEPT ![r] = "awaitInit"]
       /\ UNCHANGED <<nextCalled, verifyCalls, events>>
  ELSE /\ BeginVerification(r, context)
       /\ UNCHANGED nextCalled

\* a request enters the middleware: the context is built from its headers
Request(r, path, sig, xpay) ==
  /\ pc[r] = "idle"
  /\ IF r = 1 THEN TRUE ELSE pc[r - 1] # "idle"
  /\ LET context == [path |-> path,
                     paymentHeader |-> GetPaymentHeader(sig, xpay)]
     IN /\ ctx' = [ctx EXCEPT ![r] = context]
        /\ EnterMiddleware(r, context)
  /\ UNCHANGED <<sideVars, busVars, variant, initState, holderSet, verdict, res, listeners,
                 finishEmits, settleLog, inflight, settleResults>>

\* a plausible slip: the holder is cleared also when the promise rejected
AwaitInitResumesClearsHolder(r) ==
  /\ pc[r] = "awaitInit"
  /\ initState # "pending"
  /\ holderSet' = FALSE
  /\ IF initState = "resolved"
     THEN BeginVerification(r, ctx[r])
     ELSE /\ pc' = [pc EXCEPT ![r] = "crashed"]
          /\ UNCHANGED <<verifyCalls, events>>
  /\ UNCHANGED <<sideVars, busVars, variant, initState, ctx, verdict, nextCalled, res, listeners,
                 finishEmits, settleLog, inflight, settleResults>>

\* await initPromiseHolder.promise returns or throws
AwaitInitResumes(r) ==
  /\ pc[r] = "awaitInit"
  /\ initState # "pending"
  /\ IF initState = "resolved"
     THEN /\ holderSet' = FALSE
          /\ BeginVerification(r, ctx[r])
     ELSE /\ pc' = [pc EXCEPT ![r] = "crashed"]
          /\ UNCHANGED <<holderSet, verifyCalls, events>>
  /\ UNCHANGED <<sideVars, busVars, variant, initState, ctx, verdict, nextCalled, res, listeners,
                 finishEmits, settleLog, inflight, settleResults>>

\* a plausible slip: the payment-error case registers the settlement trigger
PaymentErrorRegistersSettle(r, result) ==
  /\ events' = [events EXCEPT
                  ![r] = EmitVerifyFailed(HookAfterVerify(@, ctx[r], verdict'[r]),
                                          ctx[r])]
  /\ res' = [res EXCEPT ![r] = WriteResponse(result.response)]
  /\ listeners' = [listeners EXCEPT
                     ![r] = Append(@, [paymentPayload |->
                                         <<"payload", ctx[r].paymentHeader>>,
                                       paymentRequirements |->
                                         RouteTable[ctx[r].path]])]
  /\ pc' = [pc EXCEPT ![r] = "ended"]
  /\ UNCHANGED <<nextCalled, settleLog, inflight, settleResults>>

\* a plausible slip: the payment-error case answers and then calls next()
PaymentErrorCallsNext(r, result) ==
  /\ events' = [events EXCEPT
                  ![r] = EmitVerifyFailed(HookAfterVerify(@, ctx[r], verdict'[r]),
                                          ctx[r])]
  /\ res' = [res EXCEPT ![r] = WriteResponse(result.response)]
  /\ nextCalled' = [nextCalled EXCEPT ![r] = TRUE]
  /\ pc' = [pc EXCEPT ![r] = "ended"]
  /\ UNCHANGED <<listeners, settleLog, inflight, settleResults>>

\* case "payment-error": emit verify_failed, copy the response, return
PaymentError(r, result) ==
  /\ events' = [events EXCEPT
                  ![r] = EmitVerifyFailed(HookAfterVerify(@, ctx[r], verdict'[r]),
                                          ctx[r])]
  /\ res' = [res EXCEPT ![r] = WriteResponse(result.response)]
  /\ pc' = [pc EXCEPT ![r] = "ended"]
  /\ UNCHANGED <<nextCalled, listeners, settleLog, inflight, settleResults>>

\* a plausible slip: settlement is called inline, before next()
PaymentVerifiedSettlesInline(r, result) ==
  /\ events' = [events EXCEPT
                  ![r] = HookEmit(Emit(Emit(HookAfterVerify(@, ctx[r], verdict'[r]),
                                            "verify_completed"),
                                       "settle_started"), "settle_started")]
  /\ settleLog' = [settleLog EXCEPT
                     ![r] = Append(@, [paymentPayload |-> result.paymentPayload,
                                       paymentRequirements |->
                                         result.paymentRequirements])]
  /\ inflight' = [inflight EXCEPT ![r] = @ + 1]
  /\ nextCalled' = [nextCalled EXCEPT ![r] = TRUE]
  /\ pc' = [pc EXCEPT ![r] = "handler"]
  /\ UNCHANGED <<res, listeners, settleResults>>

\* a plausible slip: the middleware awaits processSettlement before next()
PaymentVerifiedAwaitsSettlement(r, result) ==
  /\ events' = [events EXCEPT
                  ![r] = HookEmit(Emit(Emit(HookAfterVerify(@, ctx[r], verdict'[r]),
                                            "verify_completed"),
                                       "settle_started"), "settle_started")]
  /\ settleLog' = [settleLog EXCEPT
                     ![r] = Append(@, [paymentPayload |-> result.paymentPayload,
                                       paymentRequirements |->
                                         result.paymentRequirements])]
  /\ inflight' = [inflight EXCEPT ![r] = @ + 1]
  /\ pc' = [pc EXCEPT ![r] = "verifying"]
  /\ UNCHANGED <<res, listeners, nextCalled, settleResults>>

\* a plausible slip: next() is called and no 'finish' listener is in place
PaymentVerifiedNextFirst(r, result) ==
  /\ events' = [events EXCEPT
                  ![r] = Emit(HookAfterVerify(@, ctx[r], verdict'[r]),
                              "verify_completed")]
  /\ nextCalled' = [nextCalled EXCEPT ![r] = TRUE]
  /\ pc' = [pc EXCEPT ![r] = "handler"]
  /\ UNCHANGED <<res, listeners, settleLog, inflight, settleResults>>

\* case "payment-verified": emit verify_completed, res.on("finish", ..), next()
PaymentVerified(r, result) ==
  /\ events' = [events EXCEPT
                  ![r] = Emit(HookAfterVerify(@, ctx[r], verdict'[r]),
                              "verify_completed")]
  /\ listeners' = [listeners EXCEPT
                     ![r] = Append(@, [paymentPayload |-> result.paymentPayload,
                                       paymentRequirements |->
                                         result.paymentRequirements])]
  /\ nextCalled' = [nextCalled EXCEPT ![r] = TRUE]
  /\ pc' = [pc EXCEPT ![r] = "handler"]
  /\ UNCHANGED <<res, settleLog, inflight, settleResults>>

\* case "no-payment-required": return next()
NoPaymentRequired(r, result) ==
  /\ nextCalled' = [nextCalled EXCEPT ![r] = TRUE]
  /\ pc' = [pc EXCEPT ![r] = "handler"]
  /\ UNCHANGED <<events, res, listeners, settleLog, inflight, settleResults>>

\* processHTTPRequest rejects: the async middleware rejects, nothing is written
VerifyRejected(r, result) ==
  /\ events' = [events EXCEPT ![r] = HookAfterVerify(@, ctx[r], verdict'[r])]
  /\ pc' = [pc EXCEPT ![r] = "crashed"]
  /\ UNCHANGED <<nextCalled, res, listeners, settleLog, inflight, settleResults>>

\* processHTTPRequest settles and the switch on result.type runs
ProcessHTTPRequestReturns(r, v, isHtml) ==
  /\ pc[r] = "verifying"
  /\ HasPayment(ctx[r]) \/ (v = "none" )
  /\ ~HasPayment(ctx[r]) \/ (v \in Verdicts /\ ~isHtml)
  /\ verdict' = [verdict EXCEPT ![r] = v]
  /\ LET result == ProcessHTTPRequest(ctx[r], v, isHtml)
     IN CASE result.type = "no-payment-required" -> NoPaymentRequired(r, result)
          [] result.type = "payment-error" -> PaymentError(r, result)
          [] result.type = "payment-verified" -> PaymentVerified(r, result)
          [] OTHER -> VerifyRejected(r, result)
  /\ UNCHANGED <<sideVars, busVars, variant, initState, holderSet, ctx, verifyCalls, finishEmits>>

\* the Verifier has not answered within the bound; the middleware armed no
\* timer around await processHTTPRequest, so no code runs at this point
VerifyBoundElapses(r) ==
  /\ pc[r] = "verifying"
  /\ HasPayment(ctx[r])
  /\ verdict[r] = "none"
  /\ verdict' = [verdict EXCEPT ![r] = "overdue"]
  /\ UNCHANGED <<sideVars, busVars, variant, initState, holderSet, pc, ctx, verifyCalls, nextCalled,
                 res, listeners, finishEmits, settleLog, inflight, settleResults,
                 events>>

\* the resource handler (or the framework's error handler) ends the response
HandlerResponds(r, status) ==
  /\ pc[r] = "handler"
  /\ res' = [res EXCEPT ![r] = [status |-> status, headers |-> {},
                                body |-> IF status = 200 THEN "report"
                                         ELSE "error"]]
  /\ pc' = [pc EXCEPT ![r] = "ended"]
  /\ UNCHANGED <<sideVars, busVars, variant, initState, holderSet, ctx, verdict, verifyCalls,
                 nextCalled, listeners, finishEmits, settleLog, inflight, settleResults, events>>

\* the body of the 'finish' listener for one registered closure
OnFinish(r, closure) ==
  /\ events' = [events EXCEPT
                  ![r] = HookEmit(Emit(@, "settle_started"), "settle_started")]
  /\ settleLog' = [settleLog EXCEPT ![r] = Append(@, closure)]
  /\ inflight' = [inflight EXCEPT ![r] = @ + 1]

\* a plausible slip: the pair is kept in one place shared by all requests,
\* so the listener settles the pair of the first request that registered
EmitFinishSharedPair(r) ==
  /\ finishEmits' = [finishEmits EXCEPT ![r] = @ + 1]
  /\ pc' = [pc EXCEPT ![r] = "finished"]
  /\ IF listeners[r] # <<>>
     THEN OnFinish(r, listeners[CHOOSE q \in Requests :
                                  /\ listeners[q] # <<>>
                                  /\ \A p \in Requests :
                                       listeners[p] # <<>> => q <= p][1])
     ELSE UNCHANGED <<events, settleLog, inflight>>
  /\ UNCHANGED <<sideVars, busVars, variant, initState, holderSet, ctx, verdict, verifyCalls,
                 nextCalled, res, listeners, settleResults>>

\* a plausible slip: the listener settles only a response that succeeded
EmitFinishOnlyOnSuccess(r) ==
  /\ finishEmits' = [finishEmits EXCEPT ![r] = @ + 1]
  /\ pc' = [pc EXCEPT ![r] = "finished"]
  /\ IF listeners[r] # <<>> /\ res[r].status = 200
     THEN OnFinish(r, listeners[r][1])
     ELSE UNCHANGED <<events, settleLog, inflight>>
  /\ UNCHANGED <<sideVars, busVars, variant, initState, holderSet, ctx, verdict, verifyCalls,
                 nextCalled, res, listeners, settleResults>>

\* the transport emits 'finish' on res: every registered listener runs
EmitFinish(r) ==
  /\ finishEmits' = [finishEmits EXCEPT ![r] = @ + 1]
  /\ pc' = [pc EXCEPT ![r] = "finished"]
  /\ IF listeners[r] # <<>>
     THEN OnFinish(r, listeners[r][1])
     ELSE UNCHANGED <<events, settleLog, inflight>>
  /\ UNCHANGED <<sideVars, busVars, variant, initState, holderSet, ctx, verdict, verifyCalls,
                 nextCalled, res, listeners, settleResults>>

\* the response has been flushed: the transport emits 'finish'
Finish(r) ==
  /\ pc[r] = "ended"
  /\ EmitFinish(r)

\* a transport that emits 'finish' again on a response that has finished
FinishAgain(r) ==
  /\ pc[r] = "finished"
  /\ finishEmits[r] < MaxFinish
  /\ EmitFinish(r)

\* a plausible slip: the settlement trigger also runs when the response closes
ConnectionDroppedRunsListener(r) ==
  /\ pc[r] = "ended"
  /\ pc' = [pc EXCEPT ![r] = "closed"]
  /\ IF listeners[r] # <<>>
     THEN OnFinish(r, listeners[r][1])
     ELSE UNCHANGED <<events, settleLog, inflight>>
  /\ UNCHANGED <<sideVars, busVars, variant, initState, holderSet, ctx, verdict, verifyCalls,
                 nextCalled, res, listeners, finishEmits, settleResults>>

\* the connection is dropped before the response was flushed: no 'finish'
ConnectionDropped(r) ==
  /\ pc[r] = "ended"
  /\ pc' = [pc EXCEPT ![r] = "closed"]
  /\ UNCHANGED <<sideVars, busVars, variant, initState, holderSet, ctx, verdict, verifyCalls,
                 nextCalled, res, listeners, finishEmits, settleLog, inflight, settleResults,
                 events>>

\* onAfterSettle runs whenever settle returns, onSettleFailure when it throws
HookAfterSettle(evs, outcome) ==
  IF outcome = "throws" THEN HookEmit(evs, "settle_failed")
  ELSE HookEmit(evs, "settle_completed")

\* a plausible slip: success and failure are both reported as settle_completed
SettleThenAlwaysCompleted(evs, outcome) == Emit(evs, "settle_completed")

\* .then((settleResult) => ...): settle_completed on success, else settle_failed
SettleThen(evs, outcome) ==
  IF outcome = "success" THEN Emit(evs, "settle_completed")
  ELSE Emit(evs, "settle_failed")

\* a plausible slip: the rejection is only logged, no event is emitted
SettleCatchSilent(evs) == evs

\* .catch((err) => ...): settle_failed
SettleCatch(evs) == Emit(evs, "settle_failed")

\* a plausible slip: a settlement that did not succeed is started again
SettlementReturnsRetries(r, outcome) ==
  /\ inflight[r] > 0
  /\ settleResults' = [settleResults EXCEPT ![r] = Append(@, outcome)]
  /\ events' = [events EXCEPT
       ![r] = HookAfterSettle(IF outcome = "throws" THEN SettleCatch(@)
                              ELSE SettleThen(@, outcome), outcome)]
  /\ IF outcome = "success"
     THEN /\ inflight' = [inflight EXCEPT ![r] = @ - 1]
          /\ UNCHANGED settleLog
     ELSE /\ settleLog' = [settleLog EXCEPT ![r] = Append(@, settleLog[r][1])]
          /\ UNCHANGED inflight
  /\ UNCHANGED <<sideVars, busVars, variant, initState, holderSet, pc, ctx, verdict, verifyCalls,
                 nextCalled, res, listeners, finishEmits>>

\* a plausible slip: the settlement result is written into the response
SettlementReturnsWritesHeader(r, outcome) ==
  /\ inflight[r] > 0
  /\ inflight' = [inflight EXCEPT ![r] = @ - 1]
  /\ settleResults' = [settleResults EXCEPT ![r] = Append(@, outcome)]
  /\ events' = [events EXCEPT
       ![r] = HookAfterSettle(IF outcome = "throws" THEN SettleCatch(@)
                              ELSE SettleThen(@, outcome), outcome)]
  /\ res' = [res EXCEPT
              ![r].headers = @ \cup {<<"PAYMENT-RESPONSE", outcome>>}]
  /\ UNCHANGED <<sideVars, busVars, variant, initState, holderSet, pc, ctx, verdict,
                 verifyCalls, nextCalled, listeners, finishEmits, settleLog>>

\* the processSettlement promise settles: .then or .catch runs
SettlementReturns(r, outcome) ==
  /\ inflight[r] > 0
  /\ inflight' = [inflight EXCEPT ![r] = @ - 1]
  /\ settleResults' = [settleResults EXCEPT ![r] = Append(@, outcome)]
  /\ events' = [events EXCEPT
       ![r] = HookAfterSettle(IF outcome = "throws" THEN SettleCatch(@)
                              ELSE SettleThen(@, outcome), outcome)]
  /\ UNCHANGED <<sideVars, busVars, variant, initState, holderSet, pc, ctx, verdict, verifyCalls,
                 nextCalled, res, listeners, finishEmits, settleLog>>

Next ==
  \/ InitializeResolves
  \/ InitializeRejects
  \/ \E r \in Requests, path \in Paths, sig \in SigValues, xpay \in XPayValues :
       Request(r, path, sig, xpay)
  \/ \E r \in Requests : AwaitInitResumes(r)
  \/ \E r \in Requests, v \in Verdicts \cup {"none"}, isHtml \in BOOLEAN :
       ProcessHTTPRequestReturns(r, v, isHtml)
  \/ \E r \in Requests, status \in HandlerStatuses : HandlerResponds(r, status)
  \/ \E r \in Requests : Finish(r)
  \/ \E r \in Requests : ConnectionDropped(r)
  \/ \E r \in Requests, outcome \in SettleOutcomes : SettlementReturns(r, outcome)

Spec == Init /\ [][Next]_vars

\* the gateway under a transport that may emit 'finish' more than once
NextRefire ==
  \/ Next
  \/ \E r \in Requests : FinishAgain(r)

SpecRefire == Init /\ [][NextRefire]_vars

\* the gateway observed also at the instant the bound on the Verifier's
\* answer elapses
NextTimeout ==
  \/ Next
  \/ \E r \in Requests : VerifyBoundElapses(r)

SpecTimeout == Init /\ [][NextTimeout]_vars

\* the gateway when every pending promise, timer and I/O callback is run:
\* the event loop leaves no enabled step waiting forever
SpecLive == Init /\ [][Next]_vars /\ WF_vars(Next)

\* ---------------------------------------------------- header extraction
\* values a request can carry in payment-signature and in x-payment
HeaderValues == {Absent, "", "sigA", "xpayB"}

\* the middleware builds context.paymentHeader from the two headers
ExtractHeaders(sig, xpay) ==
  /\ Len(extracted) < MaxExtract
  /\ extracted' = Append(extracted,
                         [sig |-> sig, xpay |-> xpay,
                          paymentHeader |-> GetPaymentHeader(sig, xpay)])
  /\ UNCHANGED <<gatewayVars, busVars, logAtStart, callLog, toolCalls,
                 existingConfig, claudeConfig, setupRuns, flowServer, flowClient, flowRun,
                 facilitatorLog, posts>>

NextHeaders ==
  \E sig \in HeaderValues, xpay \in HeaderValues : ExtractHeaders(sig, xpay)

InitHeaders == Init /\ variant = "plain"

SpecHeaders == InitHeaders /\ [][NextHeaders]_vars

\* ------------------------------------------------- MCP get-weather tool
\* what fetchWithPayment did: it rejected, or it returned a response
FetchOutcomes == {"throws", "ok", "notOk"}

\* an entry written by an earlier run of the tool
OldEntry == [status |-> "success", error |-> FALSE]

\* what mcp-calls.json can hold when the tool starts
LogFiles ==
  {ValidLog(<<>>), ValidLog(<<OldEntry>>),
   [kind |-> "notArray", entries |-> <<>>],
   [kind |-> "unreadable", entries |-> <<>>]}

\* calls = JSON.parse(readFileSync(..)); not an array or a throw leaves []
ReadCalls(file) == IF file.kind = "array" THEN file.entries ELSE <<>>

\* a plausible slip: the file is rewritten with the new entry alone
LogCallOverwrites(file, entry) == ValidLog(<<entry>>)

\* logCall(entry): calls.push(entry); writeFileSync(LOG_PATH, ..)
LogCall(file, entry) == ValidLog(Append(ReadCalls(file), entry))

\* the entry built by the tool handler: status "failed" until res.ok is seen,
\* error set in the catch of a rejected fetch or a rejected res.json()
ToolEntry(fetch, bodyIsJson) ==
  IF fetch = "throws" \/ ~bodyIsJson
  THEN [status |-> "failed", error |-> TRUE]
  ELSE [status |-> IF fetch = "ok" THEN "success" ELSE "failed",
        error |-> FALSE]

\* one invocation of the get-weather tool
GetWeather(fetch, bodyIsJson) ==
  /\ Len(toolCalls) < MaxCalls
  /\ toolCalls' = Append(toolCalls, [fetch |-> fetch, bodyIsJson |-> bodyIsJson])
  /\ callLog' = LogCall(callLog, ToolEntry(fetch, bodyIsJson))
  /\ UNCHANGED <<gatewayVars, busVars, extracted, logAtStart, existingConfig,
                 claudeConfig, setupRuns, flowServer, flowClient, flowRun,
                 facilitatorLog, posts>>

NextMcp ==
  \E fetch \in FetchOutcomes, bodyIsJson \in BOOLEAN : GetWeather(fetch, bodyIsJson)

\* the tool server starts with whatever mcp-calls.json holds
InitMcp ==
  /\ GatewayInit
  /\ variant = "plain"
  /\ BusInit
  /\ writeThrows = FALSE
  /\ extracted = <<>>
  /\ logAtStart \in LogFiles
  /\ callLog = logAtStart
  /\ toolCalls = <<>>
  /\ existingConfig = NoConfig
  /\ claudeConfig = NoConfig
  /\ setupRuns = <<>>
  /\ flowServer = "idle"
  /\ flowClient = "idle"
  /\ flowRun = [initial |-> "none", answers |-> <<>>]
  /\ facilitatorLog = <<>>
  /\ posts = <<>>

SpecMcp == InitMcp /\ [][NextMcp]_vars

\* ------------------------------------------- Claude Desktop config merge
WeatherKey == "x402-weather"

\* the mcpEntry values a setup run can build
McpEntries == {"entryA", "entryB"}

\* config files setup can find: top-level keys beside mcpServers, and
\* mcpServers missing, null or an object of named entries
ExistingConfigs ==
  {[top |-> t, mcpServers |-> m] :
     t \in SUBSET {<<"theme", "dark">>, <<"globalShortcut", "x">>},
     m \in {[kind |-> "absent", entries |-> {}], [kind |-> "null", entries |-> {}]}
           \cup {[kind |-> "object", entries |-> e] :
                   e \in SUBSET {<<"other", "e1">>, <<WeatherKey, "old">>}}}

\* a plausible slip: mcpServers is replaced by an object with the one entry
MergeClaudeConfigReplacesServers(existing, entry) ==
  [top |-> existing.top,
   mcpServers |-> [kind |-> "object", entries |-> {<<WeatherKey, entry>>}]]

\* mergeClaudeConfig(existing, entry)
MergeClaudeConfig(existing, entry) ==
  LET servers == IF existing.mcpServers.kind \in {"absent", "null"}
                 THEN {} ELSE existing.mcpServers.entries
  IN [top |-> existing.top,
      mcpServers |->
        [kind |-> "object",
         entries |-> {p \in servers : p[1] # WeatherKey}
                       \cup {<<WeatherKey, entry>>}]]

\* existing.mcpServers?.["x402-weather"]
HasWeatherEntry(config) ==
  \E p \in config.mcpServers.entries : p[1] = WeatherKey

\* one run of the MCP setup: read, ask before overwriting, merge, ask, write
RunSetup(entry, overwrite, confirm) ==
  /\ Len(setupRuns) < MaxSetup
  /\ IF (HasWeatherEntry(claudeConfig) /\ ~overwrite) \/ ~confirm
     THEN UNCHANGED <<claudeConfig, setupRuns>>
     ELSE /\ claudeConfig' = MergeClaudeConfig(claudeConfig, entry)
          /\ setupRuns' = Append(setupRuns, entry)
  /\ UNCHANGED <<gatewayVars, busVars, extracted, logAtStart, callLog,
                 toolCalls, existingConfig, flowServer, flowClient, flowRun,
                 facilitatorLog, posts>>

NextSetup ==
  \E entry \in McpEntries, overwrite \in BOOLEAN, confirm \in BOOLEAN :
    RunSetup(entry, overwrite, confirm)

\* setup starts with whatever claude_desktop_config.json holds
InitSetup ==
  /\ GatewayInit
  /\ variant = "plain"
  /\ BusInit
  /\ writeThrows = FALSE
  /\ extracted = <<>>
  /\ logAtStart = ValidLog(<<>>)
  /\ callLog = ValidLog(<<>>)
  /\ toolCalls = <<>>
  /\ existingConfig \in ExistingConfigs
  /\ claudeConfig = existingConfig
  /\ setupRuns = <<>>
  /\ flowServer = "idle"
  /\ flowClient = "idle"
  /\ flowRun = [initial |-> "none", answers |-> <<>>]
  /\ facilitatorLog = <<>>
  /\ posts = <<>>

SpecSetup == InitSetup /\ [][NextSetup]_vars

\* ------------------------------------------------------------ event bus
\* sseClients / broadcastEvent / GET /events / POST /demo/events of the
\* resource server, and pushEvent of the external facilitator.

\* res.write(`data: ${JSON.stringify({ type: "connected" })}\n\n`)
Connected == <<0, 0>>

\* position in sseClients of the first client whose write throws
ThrowIndex ==
  LET bad == {i \in DOMAIN sseClients :
                writeThrows /\ obsState[sseClients[i]] = "broken"}
  IN IF bad = {} THEN Len(sseClients) + 1
     ELSE CHOOSE i \in bad : \A j \in bad : i <= j

\* client.write(message) reaches the observer: forEach got to it, it is open
Written(o) ==
  \E i \in 1..(ThrowIndex - 1) : sseClients[i] = o /\ obsState[o] = "open"

\* a plausible slip: the message is written to the first client only
BroadcastEventFirstOnly(e) ==
  /\ received' = [o \in Observers |->
                    IF sseClients # <<>> /\ sseClients[1] = o /\ obsState[o] = "open"
                    THEN Append(received[o], e) ELSE received[o]]
  /\ published' = Append(published, e)
  /\ publisherFailed' = publisherFailed

\* broadcastEvent(type, data): sseClients.forEach((client) => client.write(message))
BroadcastEvent(e) ==
  /\ received' = [o \in Observers |->
                    IF Written(o) THEN Append(received[o], e) ELSE received[o]]
  /\ published' = Append(published, e)
  /\ publisherFailed' = (publisherFailed \/ ThrowIndex <= Len(sseClients))

\* events emitted so far by all requests
TotalEmitted == Len(published) + Cardinality(inFlight)

\* a plausible slip: a new observer is sent the events published before it
ConnectReplays(o) ==
  /\ obsState[o] = "idle"
  /\ IF o = 1 THEN TRUE ELSE obsState[o - 1] # "idle"
  /\ received' = [received EXCEPT ![o] = <<Connected>> \o published]
  /\ sseClients' = Append(sseClients, o)
  /\ obsState' = [obsState EXCEPT ![o] = "open"]
  /\ subscribedAt' = [subscribedAt EXCEPT ![o] = Len(published)]
  /\ UNCHANGED <<sideVars, gatewayVars, published, busEmitted, inFlight, writeThrows,
                 publisherFailed>>

\* a plausible slip: the observer is registered without the acknowledgment
ConnectNoAck(o) ==
  /\ obsState[o] = "idle"
  /\ IF o = 1 THEN TRUE ELSE obsState[o - 1] # "idle"
  /\ sseClients' = Append(sseClients, o)
  /\ obsState' = [obsState EXCEPT ![o] = "open"]
  /\ subscribedAt' = [subscribedAt EXCEPT ![o] = Len(published)]
  /\ UNCHANGED <<sideVars, gatewayVars, received, published, busEmitted, inFlight,
                 writeThrows, publisherFailed>>

\* GET /events: write the connected message, then sseClients.add(res)
Connect(o) ==
  /\ obsState[o] = "idle"
  /\ IF o = 1 THEN TRUE ELSE obsState[o - 1] # "idle"
  /\ received' = [received EXCEPT ![o] = Append(@, Connected)]
  /\ sseClients' = Append(sseClients, o)
  /\ obsState' = [obsState EXCEPT ![o] = "open"]
  /\ subscribedAt' = [subscribedAt EXCEPT ![o] = Len(published)]
  /\ UNCHANGED <<sideVars, gatewayVars, published, busEmitted, inFlight, writeThrows,
                 publisherFailed>>

\* the observer's socket is gone; its 'close' handler has not run yet
ObserverBreaks(o) ==
  /\ obsState[o] = "open"
  /\ obsState' = [obsState EXCEPT ![o] = "broken"]
  /\ UNCHANGED <<sideVars, gatewayVars, sseClients, received, subscribedAt, published,
                 busEmitted, inFlight, writeThrows, publisherFailed>>

\* a plausible slip: the close handler empties the whole set
ObserverClosesClearsAll(o) ==
  /\ obsState[o] \in {"open", "broken"}
  /\ obsState' = [obsState EXCEPT ![o] = "closed"]
  /\ sseClients' = <<>>
  /\ UNCHANGED <<sideVars, gatewayVars, received, subscribedAt, published, busEmitted,
                 inFlight, writeThrows, publisherFailed>>

\* req.on("close", () => { sseClients.delete(res) })
ObserverCloses(o) ==
  /\ obsState[o] \in {"open", "broken"}
  /\ obsState' = [obsState EXCEPT ![o] = "closed"]
  /\ sseClients' = SelectSeq(sseClients, LAMBDA c : c # o)
  /\ UNCHANGED <<sideVars, gatewayVars, received, subscribedAt, published, busEmitted,
                 inFlight, writeThrows, publisherFailed>>

\* a lifecycle event of request q is emitted by a direct broadcastEvent call
EmitLocal(q) ==
  /\ TotalEmitted < MaxEvents
  /\ busEmitted' = [busEmitted EXCEPT ![q] = @ + 1]
  /\ BroadcastEvent(<<q, busEmitted[q] + 1>>)
  /\ UNCHANGED <<sideVars, gatewayVars, sseClients, obsState, subscribedAt, inFlight,
                 writeThrows>>

\* pushEvent(payload): an un-awaited fetch POST to /demo/events
PushEvent(q) ==
  /\ TotalEmitted < MaxEvents
  /\ busEmitted' = [busEmitted EXCEPT ![q] = @ + 1]
  /\ inFlight' = inFlight \cup {<<q, busEmitted[q] + 1>>}
  /\ UNCHANGED <<sideVars, gatewayVars, sseClients, obsState, received, subscribedAt,
                 published, writeThrows, publisherFailed>>

\* app.post("/demo/events"): a posted event arrives and is broadcast
PostEventsArrives(e) ==
  /\ e \in inFlight
  /\ inFlight' = inFlight \ {e}
  /\ BroadcastEvent(e)
  /\ UNCHANGED <<sideVars, gatewayVars, sseClients, obsState, subscribedAt, busEmitted,
                 writeThrows>>

NextBus ==
  \/ \E o \in Observers : Connect(o)
  \/ \E o \in Observers : ObserverBreaks(o)
  \/ \E o \in Observers : ObserverCloses(o)
  \/ \E q \in Requests : EmitLocal(q)
  \/ \E q \in Requests : PushEvent(q)
  \/ \E e \in inFlight : PostEventsArrives(e)

\* the bus on a transport whose write to a broken connection returns false
InitBus ==
  /\ GatewayInit
  /\ variant = "hooks"
  /\ BusInit
  /\ writeThrows = FALSE
  /\ SideInit

SpecBus == InitBus /\ [][NextBus]_vars

\* the bus on a transport whose write to a broken connection throws
InitBusThrow ==
  /\ GatewayInit
  /\ variant = "hooks"
  /\ BusInit
  /\ writeThrows = TRUE
  /\ SideInit

SpecBusThrow == InitBusThrow /\ [][NextBus]_vars

\* ------------------------------------------------- POST /demo/start-flow
\* the events of one demo flow, named by their step field
FlowReset == <<1, 0>>
FlowStep(n) == <<1, n>>
FlowError == <<1, 11>>

\* consecutive broadcastEvent calls of one synchronous stretch of code
BroadcastEvents(es) ==
  /\ received' = [o \in Observers |->
                    IF Written(o) THEN received[o] \o es ELSE received[o]]
  /\ published' = published \o es
  /\ publisherFailed' = (publisherFailed \/ ThrowIndex <= Len(sseClients))

\* what a step of the flow leaves alone
FlowFrame ==
  UNCHANGED <<gatewayVars, sseClients, obsState, subscribedAt, busEmitted,
              inFlight, writeThrows, extracted, logAtStart, callLog, toolCalls,
              existingConfig, claudeConfig, setupRuns, facilitatorLog, posts>>

\* flow_reset and step 1 are broadcast, then the handler sleeps
FlowStart ==
  /\ flowClient = "idle"
  /\ flowClient' = "initiated"
  /\ BroadcastEvents(<<FlowReset, FlowStep(1)>>)
  /\ UNCHANGED flowServer
  /\ UNCHANGED flowRun
  /\ FlowFrame

\* a handler that announces the payment steps whatever the first answer was
FlowInitialAnswerAlwaysRequired(is402) ==
  /\ flowClient = "initiated"
  /\ IF TRUE
     THEN /\ flowClient' = "required"
          /\ BroadcastEvents(<<FlowStep(2)>>)
     ELSE /\ flowClient' = "ready"
          /\ UNCHANGED <<received, published, publisherFailed>>
  /\ flowRun' = [flowRun EXCEPT !.initial = IF is402 THEN "402" ELSE "other"]
  /\ UNCHANGED flowServer
  /\ FlowFrame

\* initial402 = await fetch(weatherUrl): step 2 only for a 402 answer
FlowInitialAnswer(is402) ==
  /\ flowClient = "initiated"
  /\ IF is402
     THEN /\ flowClient' = "required"
          /\ BroadcastEvents(<<FlowStep(2)>>)
     ELSE /\ flowClient' = "ready"
          /\ UNCHANGED <<received, published, publisherFailed>>
  /\ flowRun' = [flowRun EXCEPT !.initial = IF is402 THEN "402" ELSE "other"]
  /\ UNCHANGED flowServer
  /\ FlowFrame

\* steps 3, 4 and 5, each after a sleep
FlowAnnounce(n) ==
  /\ n \in 3..5
  /\ flowClient = (CASE n = 3 -> "required" [] n = 4 -> "signing" [] n = 5 -> "signed")
  /\ flowClient' = (CASE n = 3 -> "signing" [] n = 4 -> "signed" [] n = 5 -> "ready")
  /\ BroadcastEvents(<<FlowStep(n)>>)
  /\ UNCHANGED flowServer
  /\ UNCHANGED flowRun
  /\ FlowFrame

\* wrappedFetch(weatherUrl): the paid request reaches the middleware
FlowPays ==
  /\ flowClient = "ready"
  /\ flowClient' = "waiting"
  /\ flowServer' = "requested"
  /\ UNCHANGED <<received, published, publisherFailed>>
  /\ UNCHANGED flowRun
  /\ FlowFrame

\* onBeforeVerify broadcasts step 6
FlowVerifyStarts ==
  /\ flowServer = "requested"
  /\ flowServer' = "verifying"
  /\ BroadcastEvents(<<FlowStep(6)>>)
  /\ UNCHANGED flowClient
  /\ UNCHANGED flowRun
  /\ FlowFrame

\* the hook after verify broadcasts step 7; a verified request is handed to
\* the handler, which writes the response; a refused one is answered 402
FlowVerifyEnds(valid) ==
  /\ flowServer = "verifying"
  /\ flowServer' = IF valid THEN "responded" ELSE "rejected"
  /\ BroadcastEvents(<<FlowStep(7)>>)
  /\ UNCHANGED flowClient
  /\ UNCHANGED flowRun
  /\ FlowFrame

\* res emits 'finish': processSettlement runs and onBeforeSettle broadcasts step 9
FlowFinish ==
  /\ flowServer = "responded"
  /\ flowServer' = "settling"
  /\ BroadcastEvents(<<FlowStep(9)>>)
  /\ UNCHANGED flowClient
  /\ UNCHANGED flowRun
  /\ FlowFrame

\* settle returns or throws: the hook broadcasts step 10
FlowSettles ==
  /\ flowServer = "settling"
  /\ flowServer' = "settled"
  /\ BroadcastEvents(<<FlowStep(10)>>)
  /\ UNCHANGED flowClient
  /\ UNCHANGED flowRun
  /\ FlowFrame

\* await wrappedFetch / response.json() return: step 8 if response.ok,
\* flow_error otherwise; either way the handler answers with res.json
FlowClientReads ==
  /\ flowClient = "waiting"
  /\ flowServer \in {"responded", "settling", "settled", "rejected"}
  /\ IF flowServer = "rejected"
     THEN /\ flowClient' = "failed"
          /\ BroadcastEvents(<<FlowError>>)
     ELSE /\ flowClient' = "done"
          /\ BroadcastEvents(<<FlowStep(8)>>)
  /\ flowRun' = [flowRun EXCEPT !.answers = Append(@, 200)]
  /\ UNCHANGED flowServer
  /\ FlowFrame

\* catch (error): the first fetch, wrappedFetch or response.json() rejects;
\* flow_error is broadcast and the handler answers 500
FlowThrows ==
  /\ flowClient \in {"initiated", "ready", "waiting"}
  /\ flowClient' = "failed"
  /\ BroadcastEvents(<<FlowError>>)
  /\ flowRun' = [flowRun EXCEPT !.answers = Append(@, 500)]
  /\ UNCHANGED flowServer
  /\ FlowFrame

NextFlow ==
  \/ FlowStart
  \/ \E is402 \in BOOLEAN : FlowInitialAnswer(is402)
  \/ \E n \in 3..5 : FlowAnnounce(n)
  \/ FlowPays
  \/ FlowVerifyStarts
  \/ \E valid \in BOOLEAN : FlowVerifyEnds(valid)
  \/ FlowFinish
  \/ FlowSettles
  \/ FlowClientReads
  \/ FlowThrows
  \/ \E o \in Observers : Connect(o)
  \/ \E o \in Observers : ObserverCloses(o)

\* the demo server with the facilitator hooks broadcasting in process
SpecFlow == InitBus /\ [][NextFlow]_vars

\* ------------------------------------- facilitator: POST /verify, /settle
\* req.body as express.json() leaves it: each field absent, empty or present
PayloadValues == {Absent, "", "payload", "payloadNoNetwork"}
RequirementValues == {Absent, "", "requirements"}
FacilitatorBodies ==
  [paymentPayload : PayloadValues, paymentRequirements : RequirementValues]

\* an error message as the pieces of text the handler looks for, in order
Aborted == "Settlement aborted:"
Space == " "
ErrorMessages ==
  { <<"insufficient funds">>,
    <<Aborted, Space, "nonce used">>,
    <<Aborted, "nonce used">>,
    <<"hook:", Space, Aborted, Space, "nonce used">> }

\* what facilitator.verify / facilitator.settle does once called
NoOutcome == [kind |-> "none", value |-> "", message |-> <<>>]
Returns(v) == [kind |-> "returns", value |-> v, message |-> <<>>]
ThrowsError(m) == [kind |-> "throwsError", value |-> "", message |-> m]
ThrowsOther == [kind |-> "throwsOther", value |-> "", message |-> <<>>]
FacilitatorVerifyOutcomes ==
  {Returns("valid"), Returns("invalid"), ThrowsOther}
    \cup {ThrowsError(m) : m \in ErrorMessages}
FacilitatorSettleOutcomes ==
  {Returns("success"), Returns("failure"), ThrowsOther}
    \cup {ThrowsError(m) : m \in ErrorMessages}

\* a handler that answers 400 only when both fields are missing
MissingFieldsBoth(body) ==
  Falsy(body.paymentPayload) /\ Falsy(body.paymentRequirements)

\* if (!paymentPayload || !paymentRequirements)
MissingFields(body) ==
  Falsy(body.paymentPayload) \/ Falsy(body.paymentRequirements)

\* message.includes(text)
Includes(message, text) == \E i \in DOMAIN message : message[i] = text

\* where pattern first occurs in message, 0 if nowhere
FirstMatch(message, pattern) ==
  LET hits == {i \in 1..(Len(message) - Len(pattern) + 1) :
                 SubSeq(message, i, i + Len(pattern) - 1) = pattern}
  IN IF hits = {} THEN 0 ELSE CHOOSE i \in hits : \A j \in hits : i <= j

\* message.replace(pattern, ""): the first occurrence is cut out
Replace(message, pattern) ==
  LET i == FirstMatch(message, pattern)
  IN IF i = 0
     THEN message
     ELSE SubSeq(message, 1, i - 1)
            \o SubSeq(message, i + Len(pattern), Len(message))

\* req.body?.paymentPayload?.network || "unknown"
Network(payload) == IF payload = "payload" THEN "eip155:9745" ELSE "unknown"

Answer(status, kind, text, network) ==
  [status |-> status, kind |-> kind, text |-> text, network |-> network]
MissingAnswer ==
  Answer(400, "error", <<"Missing paymentPayload or paymentRequirements">>, "")

\* the res.json calls of one POST /verify, in order
VerifyResponses(body, outcome) ==
  IF MissingFields(body)
  THEN <<MissingAnswer>>
  ELSE CASE outcome.kind = "returns" ->
              <<Answer(200, "result", <<outcome.value>>, "")>>
         [] outcome.kind = "throwsError" ->
              <<Answer(500, "error", outcome.message, "")>>
         [] OTHER ->
              <<Answer(500, "error", <<"Unknown error">>, "")>>

\* the res.json calls of one POST /settle, in order
SettleResponses(body, outcome) ==
  IF MissingFields(body)
  THEN <<MissingAnswer>>
  ELSE CASE outcome.kind = "returns" ->
              <<Answer(200, "result", <<outcome.value>>, "")>>
         [] outcome.kind = "throwsError" /\ Includes(outcome.message, Aborted) ->
              <<Answer(200, "aborted",
                       Replace(outcome.message, <<Aborted, Space>>),
                       Network(body.paymentPayload))>>
         [] outcome.kind = "throwsError" ->
              <<Answer(500, "error", outcome.message, "")>>
         [] OTHER ->
              <<Answer(500, "error", <<"Unknown error">>, "")>>

\* what a request to the facilitator leaves alone
FacilitatorFrame ==
  UNCHANGED <<gatewayVars, busVars, extracted, logAtStart, callLog, toolCalls,
              existingConfig, claudeConfig, setupRuns, flowServer, flowClient,
              flowRun, posts>>

\* app.post("/verify"): facilitator.verify is awaited only for a complete body
PostVerify(body, outcome) ==
  /\ Len(facilitatorLog) < MaxRpc
  /\ outcome.kind = "none" <=> MissingFields(body)
  /\ facilitatorLog' =
       Append(facilitatorLog,
              [endpoint |-> "verify", body |-> body,
               called |-> ~MissingFields(body), outcome |-> outcome,
               responses |-> VerifyResponses(body, outcome)])
  /\ FacilitatorFrame

\* app.post("/settle"): facilitator.settle is awaited only for a complete body
PostSettle(body, outcome) ==
  /\ Len(facilitatorLog) < MaxRpc
  /\ outcome.kind = "none" <=> MissingFields(body)
  /\ facilitatorLog' =
       Append(facilitatorLog,
              [endpoint |-> "settle", body |-> body,
               called |-> ~MissingFields(body), outcome |-> outcome,
               responses |-> SettleResponses(body, outcome)])
  /\ FacilitatorFrame

NextFacilitator ==
  \/ \E body \in FacilitatorBodies :
       \E outcome \in FacilitatorVerifyOutcomes \cup {NoOutcome} : PostVerify(body, outcome)
  \/ \E body \in FacilitatorBodies :
       \E outcome \in FacilitatorSettleOutcomes \cup {NoOutcome} : PostSettle(body, outcome)

\* the standalone facilitator answering requests one after another
SpecFacilitator == InitHeaders /\ [][NextFacilitator]_vars

\* ------------------------------------------------- POST /demo/events
\* the type field of a posted body: 0 for none (or a falsy one), else a type
NoType == 0
PostedTypes == {NoType, 2, 3}
\* the timestamp field of a posted body: 0 for none, else the value posted
NoTimestamp == 0
PostedTimestamps == {NoTimestamp, 5}
EventBodies == [type : PostedTypes, timestamp : PostedTimestamps]

\* Date.now() when the handler runs
ServerNow == 9

\* const { type, ...data } = req.body
DataOf(body) == [timestamp |-> body.timestamp]

\* { type, timestamp: Date.now(), ...data }: the fields of data are spread
\* last, so a timestamp in data replaces the one set from Date.now()
EventOf(type, data) ==
  <<type, IF data.timestamp # NoTimestamp THEN data.timestamp ELSE ServerNow>>

\* res.json({ ok: true })
OkAnswer == [status |-> 200, ok |-> TRUE]

\* app.post("/demo/events"): broadcast if the body has a type, then answer
PostDemoEvents(body) ==
  /\ Len(posts) < MaxPosts
  /\ IF body.type # NoType
     THEN BroadcastEvent(EventOf(body.type, DataOf(body)))
     ELSE UNCHANGED <<received, published, publisherFailed>>
  /\ posts' = Append(posts, [body |-> body,
                             before |-> Len(published),
                             after |-> Len(published'),
                             answer |-> OkAnswer])
  /\ UNCHANGED <<gatewayVars, sseClients, obsState, subscribedAt, busEmitted,
                 inFlight, writeThrows, extracted, logAtStart, callLog,
                 toolCalls, existingConfig, claudeConfig, setupRuns, flowServer,
                 flowClient, flowRun, facilitatorLog>>

NextEvents ==
  \/ \E body \in EventBodies : PostDemoEvents(body)
  \/ \E o \in Observers : Connect(o)
  \/ \E o \in Observers : ObserverCloses(o)

\* the demo client forwarding posted events to its observers
SpecEvents == InitBus /\ [][NextEvents]_vars

\* ---------------------------------------------------------- properties

Range(seq) == {seq[i] : i \in DOMAIN seq}
EventCount(r, type) == Cardinality({i \in DOMAIN events[r] : events[r][i] = type})
Arrived(r) == pc[r] # "idle"
Answered(r) == pc[r] \in {"ended", "finished", "closed"}
\* a request on a paid route that carries no credential
Bare(r) == Arrived(r) /\ RequiresPayment(ctx[r]) /\ ~HasPayment(ctx[r])
SettlementStarted(r) ==
  settleLog[r] # <<>> \/ inflight[r] > 0 \/ "settle_started" \in Range(events[r])

\* C1: settlement executes at most once per verified request, also when the
\* response-completion hook fires more than once: at most one call of
\* processSettlement and at most one settle_started per request.
C1_SettleAtMostOnce ==
  \A r \in Requests :
    /\ Len(settleLog[r]) <= 1
    /\ EventCount(r, "settle_started") <= 1

\* C2: settle_started is emitted and the Settler is called only once the
\* response has finished, and only by the step that emits 'finish'.
C2_SettleOnlyAfterFinish ==
  \A r \in Requests :
    SettlementStarted(r) => /\ finishEmits[r] >= 1
                            /\ pc[r] = "finished"
                            /\ verdict[r] = "valid"

C2_Witness ==
  \E r \in Requests :
    /\ verdict[r] = "valid"
    /\ finishEmits[r] = 1
    /\ Len(settleLog[r]) = 1
    /\ variant = "guarded" /\ "settle_started" \in Range(events[r])

\* C3: the response of a verified request is not held up by settlement: the
\* step that accepts the payment hands control to the resource handler with
\* no Settler call made, and the response finishes with no Settler call made
\* before it.
C3_ResponseNotHeldUp ==
  [][\A r \in Requests :
       /\ (verdict[r] # "valid" /\ verdict'[r] = "valid")
            => (nextCalled'[r] /\ pc'[r] = "handler" /\ settleLog'[r] = <<>>)
       /\ (finishEmits[r] = 0 /\ finishEmits'[r] = 1)
            => (settleLog[r] = <<>> /\ inflight[r] = 0)]_vars

\* the response is complete while the Settler has been called and not returned
C3_Witness ==
  \E r \in Requests :
    /\ verdict[r] = "valid"
    /\ pc[r] = "finished"
    /\ res[r].status = 200
    /\ inflight[r] = 1

\* C4: on a paid route the resource handler is invoked only for a request
\* whose verification succeeded, never for a rejected one.
C4_VerificationGatesHandler ==
  \A r \in Requests :
    (Arrived(r) /\ RequiresPayment(ctx[r]))
      => /\ nextCalled[r] => verdict[r] = "valid"
         /\ (Answered(r) /\ verdict[r] # "valid") => ~nextCalled[r]

C4_Witness ==
  \E r, q \in Requests :
    /\ RequiresPayment(ctx[r]) /\ verdict[r] = "invalid" /\ pc[r] = "finished"
    /\ ~nextCalled[r]
    /\ RequiresPayment(ctx[q]) /\ verdict[q] = "valid" /\ nextCalled[q]

\* C5: a request whose credential the Verifier reports invalid is answered
\* with the error response; no settle_started is emitted and the Settler is
\* never invoked for it.
C5_InvalidNeverSettles ==
  \A r \in Requests :
    verdict[r] = "invalid"
      => /\ Answered(r)
         /\ res[r].status = 402
         /\ ~SettlementStarted(r)

C5_Witness ==
  \E r \in Requests :
    /\ verdict[r] = "invalid"
    /\ pc[r] = "finished"
    /\ finishEmits[r] = 1
    /\ res[r].status = 402

\* C6: a request to a route without a payment requirement goes straight to
\* the resource handler whatever headers it carries: no Verifier call, no
\* Settler call, no lifecycle event.
C6_FreeRouteUntouched ==
  \A r \in Requests :
    (Arrived(r) /\ ~RequiresPayment(ctx[r]))
      => /\ nextCalled[r]
         /\ pc[r] \in {"handler", "ended", "finished", "closed"}
         /\ verifyCalls[r] = 0
         /\ verdict[r] = "none"
         /\ ~SettlementStarted(r)
         /\ listeners[r] = <<>>
         /\ events[r] = <<>>

C6_Witness ==
  \E r \in Requests :
    /\ ctx[r].path = FreePath
    /\ HasPayment(ctx[r])
    /\ pc[r] = "finished"
    /\ variant = "unguarded"

C8_BareProbeSilent ==
  \A r \in Requests : Bare(r) => events[r] = <<>>

\* C9: verify_completed is emitted only when the Verifier reported valid, and
\* when it reported invalid the event emitted is verify_failed.
C9_VerifyEventMatchesVerdict ==
  \A r \in Requests :
    /\ "verify_completed" \in Range(events[r]) => verdict[r] = "valid"
    /\ (verdict[r] = "invalid" /\ variant # "plain")
         => "verify_failed" \in Range(events[r])

\* C10: when processHTTPRequest rejects, the request is treated as with
\* valid=false: verify_failed is emitted, the rejection response is written,
\* the request terminates and no settlement is started.
C10_VerifierExceptionRejected ==
  \A r \in Requests :
    verdict[r] = "throws"
      => /\ Answered(r)
         /\ res[r].status = 402
         /\ variant # "plain" => "verify_failed" \in Range(events[r])
         /\ ~SettlementStarted(r)

\* C11: the Verifier call is bounded: when the Verifier has not answered
\* within the bound the request is rejected like valid=false (verify_failed,
\* rejection response) instead of waiting on.
C11_VerifierTimeoutRejects ==
  \A r \in Requests :
    verdict[r] = "overdue"
      => /\ Answered(r)
         /\ res[r].status = 402
         /\ variant \in {"guarded", "unguarded"}
              => "verify_failed" \in Range(events[r])

C13_OneMatchingSettleOutcome ==
  \A r \in Requests :
    /\ EventCount(r, "settle_completed") + EventCount(r, "settle_failed")
         <= EventCount(r, "settle_started")
    /\ variant # "plain"
         => /\ "settle_completed" \in Range(events[r])
                 <=> "success" \in Range(settleResults[r])
            /\ "settle_failed" \in Range(events[r])
                 <=> (Range(settleResults[r]) \ {"success"}) # {}

\* C14: within a request verify_started precedes verify_completed and
\* verify_failed, and settle_started precedes settle_completed and
\* settle_failed.
C14_EventsInOrder ==
  \A r \in Requests : \A i \in DOMAIN events[r] :
    /\ events[r][i] \in {"verify_completed", "verify_failed"}
         => \E j \in 1..(i - 1) : events[r][j] = "verify_started"
    /\ events[r][i] \in {"settle_completed", "settle_failed"}
         => \E j \in 1..(i - 1) : events[r][j] = "settle_started"

C14_Witness ==
  \E r, q \in Requests :
    /\ variant = "guarded"
    /\ events[r] = <<"verify_started", "verify_completed",
                     "settle_started", "settle_completed">>
    /\ events[q] = <<"verify_started", "verify_failed">>

\* C20: the gateway never retries: the Verifier is invoked at most once per
\* request and a failed verification ends the request; after a settlement
\* that failed or threw, the Settler is not invoked again for the request.
C20_NoRetry ==
  \A r \in Requests :
    /\ verifyCalls[r] <= 1
    /\ verdict[r] = "invalid" => (Answered(r) /\ ~nextCalled[r])
    /\ (Range(settleResults[r]) \ {"success"}) # {}
         => /\ inflight[r] = 0
            /\ Len(settleLog[r]) = Len(settleResults[r])

C20_Witness ==
  \E r, q \in Requests :
    /\ settleResults[r] = <<"failure">>
    /\ Len(settleLog[r]) = 1
    /\ verdict[q] = "invalid"
    /\ verifyCalls[q] = 1
    /\ pc[q] = "finished"

\* lifecycle events delivered to observer o, after the acknowledgment
Delivered(o) == IF received[o] = <<>> THEN <<>> ELSE Tail(received[o])

\* events published since observer o subscribed
PublishedSince(o) == SubSeq(published, subscribedAt[o] + 1, Len(published))

\* C15: the lifecycle events of one request reach every observer in the order
\* in which they were emitted, also when each event is forwarded by its own
\* un-awaited POST to /demo/events.
C15_PerRequestOrderDelivered ==
  \A o \in Observers :
    \A i, j \in DOMAIN received[o] :
      (i < j /\ received[o][i][1] = received[o][j][1])
        => received[o][i][2] < received[o][j][2]

\* C16: the bus is a live broadcast without replay: an observer gets none of
\* the events published before it subscribed, and while it is connected it
\* has every later event exactly once, in publish order.
C16_LiveBroadcastNoReplay ==
  \A o \in Observers :
    /\ Len(Delivered(o)) <= Len(PublishedSince(o))
    /\ Delivered(o) = SubSeq(PublishedSince(o), 1, Len(Delivered(o)))
    /\ obsState[o] = "open" => Delivered(o) = PublishedSince(o)

C16_Witness ==
  \E o \in Observers :
    /\ obsState[o] = "open"
    /\ subscribedAt[o] > 0
    /\ Len(Delivered(o)) > 0

\* C17: a step that adds or removes an observer, or publishes, leaves every
\* other connected observer's deliveries intact: each observer connected
\* across the step gains exactly the event published by the step, if any.
C17_OthersUndisturbed ==
  [][\A o \in Observers :
       (obsState[o] = "open" /\ obsState'[o] = "open")
         => received'[o] = IF published' # published
                           THEN Append(received[o], published'[Len(published')])
                           ELSE received[o]]_vars

C17_Witness ==
  \E o, p \in Observers :
    /\ obsState[o] = "closed"
    /\ obsState[p] = "open"
    /\ subscribedAt[p] >= subscribedAt[o]
    /\ Len(received[p]) > Len(received[o])
    /\ Len(received[o]) > 1

\* C18: a failing observer is isolated: every other connected observer still
\* has every event published since it subscribed, and the publisher is not
\* failed by the write.
C18_FailingObserverIsolated ==
  /\ publisherFailed = FALSE
  /\ \A o \in Observers :
       obsState[o] = "open" => Len(Delivered(o)) = Len(PublishedSince(o))

\* C19: every connecting observer receives exactly one connected
\* acknowledgment, and it precedes every lifecycle event delivered to it.
C19_ConnectedAckFirst ==
  \A o \in Observers :
    IF obsState[o] = "idle" THEN received[o] = <<>>
    ELSE /\ Len(received[o]) >= 1
         /\ received[o][1] = Connected
         /\ \A i \in 2..Len(received[o]) : received[o][i] # Connected

C19_Witness ==
  \E o \in Observers :
    /\ Len(received[o]) > 1
    /\ received[o][1] = Connected
    /\ received[o][2] # Connected

\* the request is in one of the four terminal states
NoPaymentRequiredState(r) == ~RequiresPayment(ctx[r]) /\ nextCalled[r]
RejectedState(r) ==
  /\ RequiresPayment(ctx[r])
  /\ verdict[r] # "valid"
  /\ Answered(r)
  /\ res[r].status = 402
SettledState(r) == settleResults[r] = <<"success">>
SettlementFailedState(r) == settleResults[r] \in {<<"failure">>, <<"throws">>}

\* C21: every request eventually ends in one of the terminal states
\* NO_PAYMENT_REQUIRED, REJECTED, SETTLED or SETTLEMENT_FAILED; a verified
\* request whose handler completed the response eventually has its settlement
\* outcome.
C21_EveryRequestTerminates ==
  \A r \in Requests :
    Arrived(r) ~> (\/ NoPaymentRequiredState(r)
                   \/ RejectedState(r)
                   \/ SettledState(r)
                   \/ SettlementFailedState(r))

\* C22: the response delivered to the caller does not depend on settlement:
\* no step that starts or ends a settlement changes status, headers or body,
\* an answered response is never rewritten, and two verified requests with
\* the same credential and handler status are answered identically whatever
\* their settlements did.
C22_ResponseHidesSettlement ==
  [][\A r \in Requests :
       /\ Answered(r) => res'[r] = res[r]
       /\ (settleLog'[r] # settleLog[r] \/ settleResults'[r] # settleResults[r]
           \/ inflight'[r] # inflight[r]) => res'[r] = res[r]
       /\ \A q \in Requests :
            (/\ verdict[r] = "valid" /\ verdict[q] = "valid"
             /\ Answered(r) /\ Answered(q)
             /\ ctx[r] = ctx[q]
             /\ res[r].status = res[q].status) => res[r] = res[q]]_vars

C22_Witness ==
  \E r, q \in Requests :
    /\ ctx[r] = ctx[q]
    /\ verdict[r] = "valid" /\ verdict[q] = "valid"
    /\ settleResults[r] = <<"success">>
    /\ settleResults[q] = <<"throws">>
    /\ res[r] = res[q]
    /\ res[r].status = 200

\* the pair processHTTPRequest returned for the request's own context
VerifiedPair(r) ==
  [paymentPayload |-> <<"payload", ctx[r].paymentHeader>>,
   paymentRequirements |-> RouteTable[ctx[r].path]]

\* C23: the Settler is invoked only with the payload and requirements that
\* the same request's verification returned as verified, never with another
\* request's pair and never for a credential that was not verified.
C23_SettlerGetsOwnPair ==
  \A r \in Requests : \A i \in DOMAIN settleLog[r] :
    /\ verdict[r] = "valid"
    /\ HasPayment(ctx[r])
    /\ settleLog[r][i] = VerifiedPair(r)

C23_Witness ==
  \E r, q \in Requests :
    /\ Len(settleLog[r]) = 1 /\ Len(settleLog[q]) = 1
    /\ ctx[r].paymentHeader = "sigA"
    /\ ctx[q].paymentHeader = "xpayB"
    /\ settleLog[r][1].paymentPayload = <<"payload", "sigA">>
    /\ settleLog[q][1].paymentPayload = <<"payload", "xpayB">>

\* C24: the credential is the value of payment-signature when that header
\* is present and non-empty, otherwise the value of x-payment; it is missing
\* or empty only when both headers are missing or empty.
C24_HeaderOrder ==
  \A i \in DOMAIN extracted :
    LET e == extracted[i]
    IN /\ e.sig \notin {Absent, ""} => e.paymentHeader = e.sig
       /\ e.sig \in {Absent, ""} => e.paymentHeader = e.xpay
       /\ e.paymentHeader \in {Absent, ""}
            <=> (e.sig \in {Absent, ""} /\ e.xpay \in {Absent, ""})

C24_Witness ==
  \E i, j \in DOMAIN extracted :
    /\ extracted[i].sig = "" /\ extracted[i].xpay = "xpayB"
    /\ extracted[i].paymentHeader = "xpayB"
    /\ extracted[j].sig = "sigA" /\ extracted[j].xpay = "xpayB"
    /\ extracted[j].paymentHeader = "sigA"

\* entries of a valid log that was there before the first call
KeptEntries == ReadCalls(logAtStart)

\* each call appended one entry and the earlier entries are kept in order
OneEntryPerCall ==
  /\ toolCalls # <<>> => callLog.kind = "array"
  /\ Len(callLog.entries) = Len(KeptEntries) + Len(toolCalls)
  /\ SubSeq(callLog.entries, 1, Len(KeptEntries)) = KeptEntries

\* C25: every get-weather call appends exactly one entry, earlier entries of
\* a valid log are kept in order, and the entry's status is "success"
\* exactly when the HTTP response was ok.
C25_EveryCallLogged ==
  /\ OneEntryPerCall
  /\ \A i \in DOMAIN toolCalls :
       callLog.entries[Len(KeptEntries) + i].status = "success"
         <=> toolCalls[i].fetch = "ok"

\* C25, amended: the entry's status is "success" exactly when the HTTP
\* response was ok and its body was read as JSON; every call appends exactly
\* one entry and earlier entries of a valid log are kept in order.
C25_EveryCallLoggedAmended ==
  /\ OneEntryPerCall
  /\ \A i \in DOMAIN toolCalls :
       callLog.entries[Len(KeptEntries) + i].status = "success"
         <=> (toolCalls[i].fetch = "ok" /\ toolCalls[i].bodyIsJson)

C25_Witness ==
  /\ logAtStart = ValidLog(<<OldEntry>>)
  /\ Len(toolCalls) = 2
  /\ toolCalls[1] = [fetch |-> "ok", bodyIsJson |-> FALSE]
  /\ toolCalls[2] = [fetch |-> "ok", bodyIsJson |-> TRUE]
  /\ Len(callLog.entries) = 3

\* entries of mcpServers other than x402-weather
OtherServers(config) == {p \in config.mcpServers.entries : p[1] # WeatherKey}

\* C26: merging the x402-weather entry changes only mcpServers["x402-weather"]:
\* every other mcpServers entry and every other top-level key of the
\* existing config is in the merged config, unchanged.
C26_MergeTouchesOnlyWeather ==
  /\ claudeConfig.top = existingConfig.top
  /\ OtherServers(claudeConfig) = OtherServers(existingConfig)
  /\ setupRuns # <<>>
       => /\ claudeConfig.mcpServers.kind = "object"
          /\ claudeConfig.mcpServers.entries \ OtherServers(claudeConfig)
               = {<<WeatherKey, setupRuns[Len(setupRuns)]>>}

C26_Witness ==
  /\ existingConfig.top = {<<"theme", "dark">>, <<"globalShortcut", "x">>}
  /\ existingConfig.mcpServers.entries = {<<"other", "e1">>, <<WeatherKey, "old">>}
  /\ setupRuns = <<"entryA">>
  /\ claudeConfig.mcpServers.entries = {<<"other", "e1">>, <<WeatherKey, "entryA">>}

\* C27: for a verified request the 'finish' listener is registered by the
\* time next() has been called, so no response of a verified request finishes
\* without the settlement trigger having run.
C27_ListenerBeforeNext ==
  \A r \in Requests :
    /\ (RequiresPayment(ctx[r]) /\ nextCalled[r])
         => (verdict[r] = "valid" /\ Len(listeners[r]) = 1)
    /\ (verdict[r] = "valid" /\ pc[r] = "finished") => Len(settleLog[r]) >= 1

C27_Witness ==
  \E r \in Requests :
    /\ verdict[r] = "valid"
    /\ pc[r] = "handler"
    /\ nextCalled[r]
    /\ Len(listeners[r]) = 1
    /\ settleLog[r] = <<>>

\* C28: in a demo flow every observer sees response_received (step 8)
\* before settle_started (step 9) and before the settlement outcome (step 10).
C28_ResponseReceivedBeforeSettle ==
  \A o \in Observers : \A j \in DOMAIN received[o] :
    received[o][j] \in {FlowStep(9), FlowStep(10)}
      => (flowClient = "done"
          /\ \E i \in 1..(j - 1) : received[o][i] = FlowStep(8))

\* the request got as far as verification, or beyond it
ReachedVerification(r) ==
  \/ pc[r] = "verifying"
  \/ verifyCalls[r] > 0
  \/ verdict[r] # "none"
  \/ (RequiresPayment(ctx[r]) /\ Answered(r))

\* C29: no paid-route request reaches processHTTPRequest before the promise
\* of httpServer.initialize() has resolved, and the holder is cleared only
\* after it has resolved.
C29_VerifyOnlyAfterInit ==
  /\ ~holderSet => initState = "resolved"
  /\ \A r \in Requests : ReachedVerification(r) => initState = "resolved"

C29_Witness ==
  \E r, q \in Requests :
    /\ initState = "resolved"
    /\ ~holderSet
    /\ pc[r] = "verifying"
    /\ pc[q] = "awaitInit"

\* C30: once the initialization promise has rejected the holder stays set,
\* every paid-route request fails before verification and is neither
\* verified, served nor settled, and requests to other routes are served.
C30_InitFailureBlocksPaidRoutes ==
  initState = "rejected"
    => /\ holderSet
       /\ \A r \in Requests :
            Arrived(r)
              => IF RequiresPayment(ctx[r])
                 THEN /\ pc[r] \in {"awaitInit", "crashed"}
                      /\ ~ReachedVerification(r)
                      /\ ~nextCalled[r]
                      /\ ~SettlementStarted(r)
                      /\ res[r] = FreshRes
                 ELSE /\ nextCalled[r]
                      /\ pc[r] \in {"handler", "ended", "finished", "closed"}

C30_Witness ==
  \E r, q \in Requests :
    /\ initState = "rejected"
    /\ RequiresPayment(ctx[r]) /\ HasPayment(ctx[r]) /\ pc[r] = "crashed"
    /\ r < q
    /\ ~RequiresPayment(ctx[q]) /\ pc[q] = "finished" /\ res[q].status = 200

\* C31: every verify_started is followed, within the request, by exactly one
\* of verify_completed or verify_failed, also when processHTTPRequest throws.
C31_VerifyStartedGetsOutcome ==
  \A r \in Requests :
    pc[r] \notin {"idle", "awaitInit", "verifying"}
      => EventCount(r, "verify_completed") + EventCount(r, "verify_failed")
           = EventCount(r, "verify_started")

\* C32: a verified request whose response finished has had the Settler
\* invoked with its pair, whatever status the handler wrote.
C32_SettleWhateverStatus ==
  \A r \in Requests :
    (verdict[r] = "valid" /\ finishEmits[r] >= 1)
      => /\ res[r].status \in HandlerStatuses
         /\ Len(settleLog[r]) = finishEmits[r]
         /\ \A i \in DOMAIN settleLog[r] : settleLog[r][i] = listeners[r][1]

C32_Witness ==
  \E r \in Requests :
    /\ verdict[r] = "valid"
    /\ pc[r] = "finished"
    /\ res[r].status = 500
    /\ Len(settleLog[r]) = 1

\* C33: when the connection of a verified request is dropped before the
\* response finished, settlement never starts: no settle_started, no Settler
\* call.
C33_DroppedNeverSettles ==
  \A r \in Requests :
    pc[r] = "closed"
      => /\ finishEmits[r] = 0
         /\ ~SettlementStarted(r)
         /\ settleResults[r] = <<>>

C33_Witness ==
  \E r \in Requests :
    /\ pc[r] = "closed"
    /\ verdict[r] = "valid"
    /\ Len(listeners[r]) = 1
    /\ settleLog[r] = <<>>

\* C34: /verify and /settle reject a request whose body lacks paymentPayload
\* or paymentRequirements: the one answer is status 400 and facilitator.verify
\* / facilitator.settle is not called.
C34_IncompleteRejected ==
  \A i \in DOMAIN facilitatorLog :
    LET e == facilitatorLog[i]
    IN (Falsy(e.body.paymentPayload) \/ Falsy(e.body.paymentRequirements))
         => /\ ~e.called
            /\ Len(e.responses) = 1
            /\ e.responses[1].status = 400

\* both endpoints have turned away a body with exactly one field missing
C34_Witness ==
  \E i, j \in DOMAIN facilitatorLog :
    /\ facilitatorLog[i].endpoint = "verify"
    /\ facilitatorLog[i].body.paymentPayload = "payload"
    /\ facilitatorLog[i].body.paymentRequirements = Absent
    /\ facilitatorLog[i].responses = <<MissingAnswer>>
    /\ facilitatorLog[j].endpoint = "settle"
    /\ facilitatorLog[j].body.paymentPayload = Absent
    /\ facilitatorLog[j].body.paymentRequirements = "requirements"
    /\ facilitatorLog[j].responses = <<MissingAnswer>>

\* the message with "Settlement aborted:" and the space after it taken out
WithoutAbortedPrefix(message) ==
  LET i == FirstMatch(message, <<Aborted>>)
      cut == IF i < Len(message) /\ message[i + 1] = Space THEN 2 ELSE 1
  IN SubSeq(message, 1, i - 1) \o SubSeq(message, i + cut, Len(message))

\* C35: /settle maps an exception of facilitator.settle to one answer: an
\* Error whose message contains "Settlement aborted:" gives a normal answer
\* with success=false and errorReason the message without that prefix; any
\* other exception gives status 500 with an error message.
C35_SettleExceptionsMapped ==
  \A i \in DOMAIN facilitatorLog :
    LET e == facilitatorLog[i]
    IN (e.endpoint = "settle" /\ e.outcome.kind \in {"throwsError", "throwsOther"})
         => /\ Len(e.responses) = 1
            /\ IF e.outcome.kind = "throwsError" /\ Includes(e.outcome.message, Aborted)
               THEN /\ e.responses[1].status = 200
                    /\ e.responses[1].kind = "aborted"
                    /\ e.responses[1].text = WithoutAbortedPrefix(e.outcome.message)
               ELSE /\ e.responses[1].status = 500
                    /\ e.responses[1].kind = "error"
                    /\ e.responses[1].text # <<>>

\* C36: POST /demo/events broadcasts each posted body that has a type exactly
\* once to all currently connected observers with a server-assigned
\* timestamp, broadcasts nothing for a body without a type, and answers
\* {ok: true} in both cases.
C36_PostedEventsForwarded ==
  /\ \A i \in DOMAIN posts :
       /\ posts[i].answer = OkAnswer
       /\ IF posts[i].body.type = NoType
          THEN posts[i].after = posts[i].before
          ELSE /\ posts[i].after = posts[i].before + 1
               /\ published[posts[i].after] = <<posts[i].body.type, ServerNow>>
  /\ \A o \in Observers : obsState[o] = "open" => Delivered(o) = PublishedSince(o)

\* C36 without the origin of the timestamp: one event of the posted type per
\* typed body, none for an untyped one, {ok: true} always
C36_ForwardedOnceByType ==
  /\ \A i \in DOMAIN posts :
       /\ posts[i].answer = OkAnswer
       /\ IF posts[i].body.type = NoType
          THEN posts[i].after = posts[i].before
          ELSE /\ posts[i].after = posts[i].before + 1
               /\ published[posts[i].after][1] = posts[i].body.type
  /\ \A o \in Observers : obsState[o] = "open" => Delivered(o) = PublishedSince(o)

\* the events the /demo/start-flow handler broadcasts itself, in the order
\* they were published (steps 6, 7, 9 and 10 come from the facilitator hooks)
ClientEvents == {FlowReset, FlowError, FlowStep(8)} \cup {FlowStep(n) : n \in 1..5}
ClientFlow == SelectSeq(published, LAMBDA e : e \in ClientEvents)
FlowOpening == <<FlowReset, FlowStep(1)>>
PaymentSteps == <<FlowStep(2), FlowStep(3), FlowStep(4), FlowStep(5)>>
IsPrefixOf(s, t) == Len(s) <= Len(t) /\ s = SubSeq(t, 1, Len(s))

\* C37: a /demo/start-flow run broadcasts flow_reset, then request_initiated;
\* payment_required, payment_signing, payment_signed and request_with_payment
\* in that order and only when the first, unpaid request returned 402; it
\* ends with exactly one of response_received (paid response ok) and
\* flow_error (non-ok response or exception) and sends exactly one answer.
C37_FlowOrder ==
  LET ended == flowClient \in {"done", "failed"}
      steps == IF flowRun.initial = "402"
               THEN FlowOpening \o PaymentSteps
               ELSE FlowOpening
  IN /\ IF ended
        THEN \E end \in {FlowStep(8), FlowError} :
               /\ ClientFlow = steps \o <<end>>
               /\ end = FlowStep(8) <=> flowClient = "done"
        ELSE IsPrefixOf(ClientFlow, steps)
     /\ flowClient # "idle" => IsPrefixOf(FlowOpening, ClientFlow)
     /\ Len(flowRun.answers) = IF ended THEN 1 ELSE 0
     /\ flowClient = "done"
          => /\ flowServer \in {"responded", "settling", "settled"}
             /\ flowRun.answers = <<200>>

\* a run that met a 402, announced the four payment steps and got the paid
\* response
C37_Witness ==
  /\ flowClient = "done"
  /\ flowRun.initial = "402"
  /\ ClientFlow = FlowOpening \o PaymentSteps \o <<FlowStep(8)>>
  /\ flowRun.answers = <<200>>

TypeOK ==
  /\ variant \in Variants
  /\ initState \in {"pending", "resolved", "rejected"}
  /\ holderSet \in BOOLEAN
  /\ \A r \in Requests :
       /\ pc[r] \in {"idle", "awaitInit", "verifying", "handler", "ended",
                     "finished", "closed", "crashed"}
       /\ verdict[r] \in Verdicts \cup {"none", "overdue"}
       /\ finishEmits[r] \in 0..MaxFinish
       /\ inflight[r] \in 0..MaxFinish
====
